---- MODULE Spec2Model ----
(***************************************************************************)
(* predictions_nbot: the pending-attestation lifecycle of main().          *)
(*                                                                         *)
(* Two tasks share the files under data/: the maturation goroutine         *)
(* (list, fetch chain tip, load, upgrade, publish, remove) and the         *)
(* ingestion loop (receive, stat, write event, write relay, stamp, write   *)
(* proof).  Every file read/write/remove and every network call is one     *)
(* step.  The repository holds two builds of main(): src/main.go and       *)
(* src/unnamed/part_000; the variable build says which one runs.           *)
(***************************************************************************)
EXTENDS Integers, Sequences, FiniteSets, TLC

VARIABLES
    build,        \* "main" (src/main.go) or "part_000" (src/unnamed/part_000)
    secret,       \* the SECRET_KEY of the environment, "" when it is not set
    proc,         \* the process: "boot", "running", "exited" or "panicked"
    fs,           \* the files: path (sequence of characters) -> content
    mpc,          \* maturation goroutine: position
    cycle,        \* maturation goroutine: iterations of for { } started
    files,        \* names returned by os.ReadDir, sorted
    fi,           \* index of the current entry of files
    mid,          \* id extracted from the current file name
    mots,         \* parsed proof file: <<digest, sequences>>
    mevent,       \* parsed stored event: <<ID, PubKey>>
    mrelay,       \* eventRelay
    si,           \* index of the current sequence of mots
    newSeq,       \* result of seq.Upgrade
    tip,          \* <<blockHeight, blockHash>>
    ipc,          \* ingestion loop: position
    delivered,    \* events received so far
    seen,         \* ids the pool already surfaced in this subscription
    iev,          \* the event being ingested: <<ID, PubKey, Relay.URL>>
    iseq,         \* result of opentimestamps.Stamp
    iSawProof,    \* history: the proof artifact existed when os.Stat ran
    ilog,         \* history: the steps taken for the event being ingested
    hist,         \* history: what the maturation goroutine did in this cycle
    waited,       \* history: a time.Sleep of the goroutine ran since the last os.ReadDir
    completed     \* history: the ids whose completion event was published successfully

vars == <<build, secret, proc, fs, mpc, cycle, files, fi, mid, mots, mevent, mrelay, si,
          newSeq, tip, ipc, delivered, seen, iev, iseq, iSawProof, ilog, hist, waited,
          completed>>

mvars == <<mpc, cycle, files, fi, mid, mots, mevent, mrelay, si, newSeq, tip>>
ivars == <<ipc, delivered, seen, iev, iseq, iSawProof, ilog>>

(***************************************************************************)
(* Bounds of the model.                                                    *)
(***************************************************************************)
MaxCycles == 2
MaxDeliveries == 2

(***************************************************************************)
(* Strings as sequences of characters.                                     *)
(***************************************************************************)
Alphabet ==
    <<"-", ".", "/", "a", "b", "d", "e", "i", "j", "l", "m", "n", "o", "r",
      "s", "t", "v", "x", "y", "z">>

Ord(c) == CHOOSE i \in 1..Len(Alphabet) : Alphabet[i] = c

HexDigits == {"0", "1", "2", "3", "4", "5", "6", "7", "8", "9",
              "a", "b", "c", "d", "e", "f", "A", "B", "C", "D", "E", "F"}

HasPrefix(s, p) == Len(s) >= Len(p) /\ SubSeq(s, 1, Len(p)) = p

HasSuffix(s, p) == Len(s) >= Len(p) /\ SubSeq(s, Len(s) - Len(p) + 1, Len(s)) = p

HasSlash(s) == \E i \in 1..Len(s) : s[i] = "/"

\* byte-wise string order, as os.ReadDir sorts entries by file name
LexLess(s, t) ==
    \E i \in 1..(Len(t)) :
        /\ \A j \in 1..(i - 1) : j <= Len(s) /\ s[j] = t[j]
        /\ \/ i > Len(s)
           \/ i <= Len(s) /\ Ord(s[i]) < Ord(t[i])

RECURSIVE SortNames(_)
SortNames(S) ==
    IF S = {} THEN <<>>
    ELSE LET m == CHOOSE x \in S : \A y \in S \ {x} : LexLess(x, y)
         IN  <<m>> \o SortNames(S \ {m})

(***************************************************************************)
(* Constants of the program.                                               *)
(***************************************************************************)
IdLen == 64
DigestLen == 32

FILES_SUBDIR == <<"d", "a", "t", "a", "/">>

PREFIX_OTS ==
    IF build = "main" THEN <<"d", "a", "t", "a", "/", "t", "i", "m", "e", "-">>
    ELSE <<"t", "i", "m", "e", "-">>
SUFFIX_OTS == <<".", "o", "t", "s">>
PREFIX_RELAY ==
    IF build = "main" THEN <<"d", "a", "t", "a", "/", "r", "e", "l", "a", "y", "-">>
    ELSE <<"r", "e", "l", "a", "y", "-">>
SUFFIX_RELAY == <<".", "t", "x", "t">>
PREFIX_EVENT ==
    IF build = "main" THEN <<"d", "a", "t", "a", "/", "e", "v", "e", "n", "t", "-">>
    ELSE <<"e", "v", "e", "n", "t", "-">>
SUFFIX_EVENT == <<".", "j", "s", "o", "n">>

\* the directory both builds prepend when they write, read and remove a
\* record's files: part_000 spells it FILES_SUBDIR, main.go has it inside
\* the PREFIX_ constants
Subdir == IF build = "main" THEN <<>> ELSE FILES_SUBDIR

OtsPath(id) == Subdir \o PREFIX_OTS \o id \o SUFFIX_OTS
RelayPath(id) == Subdir \o PREFIX_RELAY \o id \o SUFFIX_RELAY
EventPath(id) == Subdir \o PREFIX_EVENT \o id \o SUFFIX_EVENT

\* the path the ingestion loop hands to os.Stat: no FILES_SUBDIR in either build
StatPath(id) == PREFIX_OTS \o id \o SUFFIX_OTS

\* the directory the maturation goroutine lists
ListedDir == IF build = "main" THEN <<".">> ELSE FILES_SUBDIR

\* the path the maturation goroutine reads the proof from
ReadOtsPath(name, id) == IF build = "main" THEN name ELSE OtsPath(id)

(***************************************************************************)
(* The file system.                                                        *)
(***************************************************************************)
Exists(p) == p \in DOMAIN fs

WriteFile(f, p, c) == [q \in DOMAIN f \cup {p} |-> IF q = p THEN c ELSE f[q]]

Remove(f, p) == [q \in DOMAIN f \ {p} |-> f[q]]

\* os.ReadDir: the names of the entries directly inside dir, sorted
ReadDir(dir) ==
    LET inside ==
            IF dir = <<".">> THEN {p \in DOMAIN fs : ~HasSlash(p)}
            ELSE {SubSeq(p, Len(dir) + 1, Len(p)) :
                    p \in {q \in DOMAIN fs : HasPrefix(q, dir) /\ Len(q) > Len(dir)}}
    IN  SortNames({n \in inside : ~HasSlash(n)})

(***************************************************************************)
(* File contents: [t |-> format, body |-> fields].                         *)
(***************************************************************************)
DirEntry == [t |-> "dir", body |-> <<>>]

\* event.String(): the event as JSON
EventString(ev) == [t |-> "json", body |-> <<ev[1], ev[2]>>]

\* json.Unmarshal into a nostr.Event
JsonUnmarshal(c) ==
    IF c.t = "json" /\ Len(c.body) = 2
    THEN [ok |-> TRUE, event |-> c.body]
    ELSE [ok |-> FALSE, event |-> <<>>]

\* []byte(event.Relay.URL)
RelayBytes(url) == [t |-> "txt", body |-> url]

IsSpace(c) == c \in {" ", "\n", "\t"}

RECURSIVE TrimLeft(_)
TrimLeft(s) == IF s # <<>> /\ IsSpace(Head(s)) THEN TrimLeft(Tail(s)) ELSE s

RECURSIVE TrimRight(_)
TrimRight(s) ==
    IF s # <<>> /\ IsSpace(s[Len(s)]) THEN TrimRight(SubSeq(s, 1, Len(s) - 1)) ELSE s

\* strings.TrimSpace
TrimSpace(s) == TrimRight(TrimLeft(s))

\* opentimestamps.File.SerializeToFile
SerializeToFile(digest, sequences) == [t |-> "ots", body |-> <<digest, sequences>>]

\* opentimestamps.ReadFromFile
ReadFromFile(c) ==
    IF c.t = "ots" /\ Len(c.body) = 2
    THEN [ok |-> TRUE, file |-> c.body]
    ELSE [ok |-> FALSE, file |-> <<>>]

RECURSIVE HexPairs(_)
HexPairs(s) ==
    IF Len(s) < 2 \/ s[1] \notin HexDigits \/ s[2] \notin HexDigits THEN <<>>
    ELSE <<(<<s[1], s[2]>>)>> \o HexPairs(SubSeq(s, 3, Len(s)))

\* hex.DecodeString: the bytes decoded before the first error, and the error
HexDecodeString(s) ==
    LET bytes == HexPairs(s)
    IN  [bytes |-> bytes, ok |-> Len(s) = 2 * Len(bytes)]

ZeroByte == <<"0", "0">>

\* var digest [32]byte; copy(digest[:], id)
CopyDigest(bytes) ==
    [i \in 1..DigestLen |-> IF i <= Len(bytes) THEN bytes[i] ELSE ZeroByte]

(***************************************************************************)
(* Attestation sequences: instructions, the last one an attestation.       *)
(***************************************************************************)
OpStep == [k |-> "op", h |-> 0]
PendingAtt == [k |-> "pending", h |-> 0]
BitcoinAtt == [k |-> "bitcoin", h |-> 1]

Terminal(seq) == seq[Len(seq)]

IsConfirmed(seq) == Terminal(seq).k = "bitcoin"

\* opentimestamps.Stamp: an error, or a sequence ending in a pending attestation
StampOutcomes(digest) ==
    {[err |-> TRUE, seq |-> <<>>], [err |-> FALSE, seq |-> <<OpStep, PendingAtt>>]}

\* seq.Upgrade: an error, or the sequence with its terminal step replaced by
\* what the calendar server answered (still pending, or a block attestation)
UpgradeOutcomes(seq) ==
    {[err |-> TRUE, seq |-> <<>>]}
    \cup {[err |-> FALSE, seq |-> SubSeq(seq, 1, Len(seq) - 1) \o tail] :
            tail \in {<<PendingAtt>>, <<OpStep, BitcoinAtt>>}}

\* relay.Publish: (status, err)
PublishOutcomes == {<<"succeeded", "nil">>, <<"failed", "nil">>,
                    <<"sent", "nil">>, <<"failed", "err">>}

(***************************************************************************)
(* Inputs: the ids, events and stores the model draws from.                *)
(***************************************************************************)
IdA == [i \in 1..IdLen |-> "a"]
IdZ == [i \in 1..IdLen |-> "z"]
IdShort == <<"a", "b">>

\* two of the endpoints of the subscription list
Relay1 == <<"wss://nostr.mom">>
Relay2 == <<"wss://nostr.wine">>
Relays == {Relay1, Relay2}

\* the events the pool can surface: <<ID, PubKey, Relay.URL>>
Events == {<<IdA, "pk", r>> : r \in Relays}

DataDir == <<"d", "a", "t", "a">>

\* after os.Mkdir("data") on a fresh working directory
EmptyStore == (DataDir :> DirEntry)

\* a store holding proof-named entries with malformed identifiers, one of
\* them with content that opentimestamps.ReadFromFile rejects
MalformedStore ==
    EmptyStore
    @@ (OtsPath(IdShort) :> SerializeToFile(<<>>, <<(<<OpStep, PendingAtt>>)>>))
    @@ (OtsPath(IdZ) :> [t |-> "ots", body |-> <<>>])

\* a store already holding the record of IdA, its proof made of two sequences
TwoSeqStore ==
    EmptyStore
    @@ (OtsPath(IdA) :>
          SerializeToFile(HexDecodeString(IdA).bytes,
                          <<(<<OpStep, PendingAtt>>), (<<OpStep, OpStep, PendingAtt>>)>>))
    @@ (RelayPath(IdA) :> RelayBytes(Relay2 \o <<"\n">>))
    @@ (EventPath(IdA) :> EventString(<<IdA, "pk">>))

InitialStores == {EmptyStore, MalformedStore, TwoSeqStore}

AllIds == {IdA, IdZ, IdShort}

(***************************************************************************)
(* History records.                                                        *)
(***************************************************************************)
\* op: the operation; n: the cycle; id: the record; k: the sequence index;
\* x: the result or status; e: the error; y: the attestation or artifact kind;
\* u: the relay URL
H(op, n, id, k, x, e, y, u) ==
    [op |-> op, n |-> n, id |-> id, k |-> k, x |-> x, e |-> e, y |-> y, u |-> u]

\* a record is complete and loadable: well-formed id, three parsable artifacts
Loadable(f, id) ==
    /\ Len(id) = IdLen
    /\ HexDecodeString(id).ok
    /\ OtsPath(id) \in DOMAIN f /\ ReadFromFile(f[OtsPath(id)]).ok
    /\ EventPath(id) \in DOMAIN f /\ JsonUnmarshal(f[EventPath(id)]).ok
    /\ RelayPath(id) \in DOMAIN f

AllThreeExist(f, id) ==
    /\ OtsPath(id) \in DOMAIN f
    /\ RelayPath(id) \in DOMAIN f
    /\ EventPath(id) \in DOMAIN f

(***************************************************************************)
(* Initial state: main() is entered; the store is what earlier runs left.   *)
(***************************************************************************)
NoSeq == <<>>

\* the settings field SecretKey is tagged required:"true"
SecretRequired == build = "part_000"

\* envconfig.Process: fails when a required variable is not set
EnvconfigProcess(key) == ~(SecretRequired /\ key = "")

\* event.Sign(s.SecretKey): no signature can be made with an empty key
SignOk(key) == key # ""

\* os.Mkdir("data", 0700), its error ignored
Mkdir(f, p) == IF p \in DOMAIN f THEN f ELSE WriteFile(f, p, DirEntry)

Secrets == {"", "nsec"}

Init ==
    /\ build \in {"main", "part_000"}
    /\ secret \in Secrets
    /\ proc = "boot"
    /\ fs \in InitialStores
    /\ mpc = "start"
    /\ cycle = 0
    /\ files = <<>>
    /\ fi = 1
    /\ mid = <<>>
    /\ mots = <<>>
    /\ mevent = <<>>
    /\ mrelay = <<>>
    /\ si = 1
    /\ newSeq = NoSeq
    /\ tip = <<"", "">>
    /\ ipc = "subscribe"
    /\ delivered = 0
    /\ seen = {}
    /\ iev = <<>>
    /\ iseq = NoSeq
    /\ iSawProof = FALSE
    /\ ilog = <<>>
    /\ hist = {}
    /\ waited = FALSE
    /\ completed = {}

(***************************************************************************)
(* The maturation goroutine.                                               *)
(***************************************************************************)
MBase == proc = "running" /\ UNCHANGED ivars /\ UNCHANGED <<build, secret>>

MStepKeep == MBase /\ UNCHANGED waited

MStep == MStepKeep /\ UNCHANGED <<proc, completed>>

\* main(): envconfig.Process, log.Fatalf on error, os.Mkdir, then both loops
Main_Boot ==
    /\ proc = "boot"
    /\ IF EnvconfigProcess(secret)
       THEN proc' = "running" /\ fs' = Mkdir(fs, DataDir)
       ELSE proc' = "exited" /\ fs' = fs
    /\ UNCHANGED <<mvars, ivars, build, secret, hist, waited, completed>>

\* leave the body of `for _, file := range files` for the next entry
NextFile ==
    /\ mpc' = "scan"
    /\ fi' = fi + 1
    /\ mid' = <<>>
    /\ mots' = <<>>
    /\ mevent' = <<>>
    /\ mrelay' = <<>>
    /\ si' = 1
    /\ newSeq' = NoSeq

\* `continue` of the outer for { }: straight back to os.ReadDir
NextCycle ==
    /\ mpc' = "readdir"
    /\ files' = <<>>
    /\ fi' = 1
    /\ tip' = <<"", "">>

\* the ids that are complete records when the directory is listed
CompleteAtScan == {id \in AllIds : Loadable(fs, id)}

\* the ids that have a proof file when the directory is listed
ProofAtScan == {id \in AllIds : Exists(OtsPath(id))}

\* the initial os.ReadDir check and time.Sleep(5 * time.Second)
M_Start ==
    /\ mpc = "start"
    /\ mpc' = "readdir"
    /\ waited' = TRUE
    /\ UNCHANGED <<fs, cycle, files, fi, mid, mots, mevent, mrelay, si, newSeq, tip, hist>>
    /\ MBase /\ UNCHANGED <<proc, completed>>

\* files, err := os.ReadDir(...)
M_ReadDir ==
    /\ mpc = "readdir"
    /\ cycle < MaxCycles
    /\ cycle' = cycle + 1
    /\ \/ /\ mpc' = "readdir"
          /\ hist' = {H("listfail", cycle + 1, <<>>, 0, "", "", "", <<>>)}
          /\ UNCHANGED <<files, fi>>
       \/ /\ files' = ReadDir(ListedDir)
          /\ fi' = 1
          /\ mpc' = "height"
          /\ hist' = {H("complete", cycle + 1, id, 0, "", "", "", <<>>) : id \in CompleteAtScan}
                     \cup {H("proof", cycle + 1, id, 0, "", "", "", <<>>) : id \in ProofAtScan}
    /\ waited' = FALSE
    /\ UNCHANGED <<fs, mid, mots, mevent, mrelay, si, newSeq, tip>>
    /\ MBase /\ UNCHANGED <<proc, completed>>

\* http.Get(s.Esplora + "/blocks/tip/height") and io.ReadAll of the body
M_GetHeight ==
    /\ mpc = "height"
    /\ \/ /\ NextCycle
          /\ hist' = hist \cup {H("tipfail", cycle, <<>>, 0, "height", "", "", <<>>)}
       \/ /\ tip' = <<"800000", "">>
          /\ mpc' = "hash"
          /\ UNCHANGED <<files, fi, hist>>
    /\ UNCHANGED <<fs, cycle, mid, mots, mevent, mrelay, si, newSeq>>
    /\ MStep

\* mutant: a failed fetch of the tip hash goes on to the files with an empty hash
M_GetHash_FallThrough ==
    /\ mpc = "hash"
    /\ \/ /\ tip' = <<tip[1], "">>
          /\ mpc' = "scan"
          /\ hist' = hist \cup {H("tipfail", cycle, <<>>, 0, "hash", "", "", <<>>)}
       \/ /\ tip' = <<tip[1], "00000000aa">>
          /\ mpc' = "scan"
          /\ UNCHANGED hist
    /\ UNCHANGED <<fs, cycle, files, fi, mid, mots, mevent, mrelay, si, newSeq>>
    /\ MStep

\* http.Get(s.Esplora + "/blocks/tip/hash") and io.ReadAll of the body
M_GetHash ==
    /\ mpc = "hash"
    /\ \/ /\ NextCycle
          /\ hist' = hist \cup {H("tipfail", cycle, <<>>, 0, "hash", "", "", <<>>)}
       \/ /\ tip' = <<tip[1], "00000000aa">>
          /\ mpc' = "scan"
          /\ UNCHANGED <<files, fi, hist>>
    /\ UNCHANGED <<fs, cycle, mid, mots, mevent, mrelay, si, newSeq>>
    /\ MStep

\* the id a file name carries: filename[len(PREFIX_OTS) : len(filename)-len(SUFFIX_OTS)]
IdOfName(name) == SubSeq(name, Len(PREFIX_OTS) + 1, Len(name) - Len(SUFFIX_OTS))

\* strings.HasPrefix(filename, PREFIX_OTS) && strings.HasSuffix(filename, SUFFIX_OTS)
IsOtsName(name) == HasPrefix(name, PREFIX_OTS) /\ HasSuffix(name, SUFFIX_OTS)

\* if len(id) != 64 { continue }
IdAccepted(id) == Len(id) = IdLen

\* variant of M_Scan: records are found by their relay file, not by their proof file
M_Scan_ByRelayFile ==
    /\ mpc = "scan"
    /\ IF fi > Len(files)
       THEN /\ mpc' = "sleep"
            /\ UNCHANGED <<fi, mid, hist>>
       ELSE LET name == files[fi]
                id == SubSeq(name, Len(PREFIX_RELAY) + 1, Len(name) - Len(SUFFIX_RELAY))
            IN  IF HasPrefix(name, PREFIX_RELAY) /\ HasSuffix(name, SUFFIX_RELAY)
                   /\ IdAccepted(id)
                THEN /\ mid' = id
                     /\ mpc' = "read_ots"
                     /\ hist' = hist \cup {H("accept", cycle, id, 0, "", "", "", <<>>)}
                     /\ UNCHANGED fi
                ELSE /\ fi' = fi + 1
                     /\ mpc' = "scan"
                     /\ UNCHANGED <<mid, hist>>
    /\ UNCHANGED <<fs, cycle, files, mots, mevent, mrelay, si, newSeq, tip>>
    /\ MStep

\* for _, file := range files: the name filter and the id check
M_Scan ==
    /\ mpc = "scan"
    /\ IF fi > Len(files)
       THEN /\ mpc' = "sleep"
            /\ UNCHANGED <<fi, mid, hist>>
       ELSE IF IsOtsName(files[fi]) /\ IdAccepted(IdOfName(files[fi]))
       THEN /\ mid' = IdOfName(files[fi])
            /\ mpc' = "read_ots"
            /\ hist' = hist \cup {H("accept", cycle, IdOfName(files[fi]), 0, "", "", "", <<>>)}
            /\ UNCHANGED fi
       ELSE /\ fi' = fi + 1
            /\ mpc' = "scan"
            /\ UNCHANGED <<mid, hist>>
    /\ UNCHANGED <<fs, cycle, files, mots, mevent, mrelay, si, newSeq, tip>>
    /\ MStep

\* variant of M_ReadOts: a proof file that cannot be loaded is removed
M_ReadOts_RemovesOnFailure ==
    /\ mpc = "read_ots"
    /\ LET p == ReadOtsPath(files[fi], mid)
       IN  IF Exists(p) /\ ReadFromFile(fs[p]).ok
           THEN /\ mots' = ReadFromFile(fs[p]).file
                /\ mpc' = "read_event"
                /\ UNCHANGED <<fs, fi, mid, mevent, mrelay, si, newSeq, hist>>
           ELSE /\ NextFile
                /\ fs' = Remove(fs, p)
                /\ hist' = hist \cup {H("loadfail", cycle, mid, 0, "ots", "", "", <<>>)}
    /\ UNCHANGED <<cycle, files, tip>>
    /\ MStep

\* os.ReadFile of the proof and opentimestamps.ReadFromFile
M_ReadOts ==
    /\ mpc = "read_ots"
    /\ LET p == ReadOtsPath(files[fi], mid)
       IN  IF Exists(p) /\ ReadFromFile(fs[p]).ok
           THEN /\ mots' = ReadFromFile(fs[p]).file
                /\ mpc' = "read_event"
                /\ UNCHANGED <<fi, mid, mevent, mrelay, si, newSeq, hist>>
           ELSE /\ NextFile
                /\ hist' = hist \cup {H("loadfail", cycle, mid, 0, "ots", "", "", <<>>)}
    /\ UNCHANGED <<fs, cycle, files, tip>>
    /\ MStep

\* os.ReadFile of the stored event and json.Unmarshal
M_ReadEvent ==
    /\ mpc = "read_event"
    /\ LET p == EventPath(mid)
       IN  IF Exists(p) /\ JsonUnmarshal(fs[p]).ok
           THEN /\ mevent' = JsonUnmarshal(fs[p]).event
                /\ mpc' = "read_relay"
                /\ UNCHANGED <<fi, mid, mots, mrelay, si, newSeq, hist>>
           ELSE /\ NextFile
                /\ hist' = hist \cup {H("loadfail", cycle, mid, 0, "event", "", "", <<>>)}
    /\ UNCHANGED <<fs, cycle, files, tip>>
    /\ MStep

\* os.ReadFile of the relay file and strings.TrimSpace
M_ReadRelay ==
    /\ mpc = "read_relay"
    /\ LET p == RelayPath(mid)
       IN  IF Exists(p)
           THEN /\ mrelay' = TrimSpace(fs[p].body)
                /\ mpc' = "upgrade"
                /\ si' = 1
                /\ hist' = hist \cup {H("loadrelay", cycle, mid, 0, "", "", "", fs[p].body)}
                /\ UNCHANGED <<fi, mid, mots, mevent, newSeq>>
           ELSE /\ NextFile
                /\ hist' = hist \cup {H("loadfail", cycle, mid, 0, "relay", "", "", <<>>)}
    /\ UNCHANGED <<fs, cycle, files, tip>>
    /\ MStep

\* for _, seq := range ots.Sequences { newSeq, err := seq.Upgrade(ictx, ots.Digest)
M_Upgrade ==
    /\ mpc = "upgrade"
    /\ IF si > Len(mots[2])
       THEN /\ NextFile
            /\ UNCHANGED hist
       ELSE \E r \in UpgradeOutcomes(mots[2][si]) :
              IF r.err
              THEN /\ si' = si + 1
                   /\ hist' = hist \cup {H("upgrade", cycle, mid, si, "err", "", "", <<>>)}
                   /\ UNCHANGED <<mpc, fi, mid, mots, mevent, mrelay, newSeq>>
              ELSE /\ newSeq' = r.seq
                   /\ mpc' = "ensure"
                   /\ hist' = hist \cup
                        {H("upgrade", cycle, mid, si, "ok", "", Terminal(r.seq).k, <<>>)}
                   /\ UNCHANGED <<fi, mid, mots, mevent, mrelay, si>>
    /\ UNCHANGED <<fs, cycle, files, tip>>
    /\ MStep

\* relay, err := pool.EnsureRelay(eventRelay); on error `continue`s the sequence loop
\* then event.Sign(s.SecretKey), which panics on error
M_EnsureRelay ==
    /\ mpc = "ensure"
    /\ \/ /\ si' = si + 1
          /\ mpc' = "upgrade"
          /\ newSeq' = NoSeq
          /\ hist' = hist \cup {H("ensure", cycle, mid, si, "err", "", "", mrelay)}
          /\ proc' = proc
       \/ /\ IF SignOk(secret)
             THEN mpc' = "publish" /\ proc' = proc
             ELSE mpc' = mpc /\ proc' = "panicked"
          /\ UNCHANGED <<si, newSeq, hist>>
    /\ UNCHANGED <<fs, cycle, files, fi, mid, mots, mevent, mrelay, tip, completed>>
    /\ MStepKeep

\* the ids published successfully, after relay.Publish returned outcome o for mid
Completed(o) ==
    IF o[1] = "succeeded" /\ o[2] = "nil" THEN completed \cup {mid} ELSE completed

\* mutant: the status of the publish is not looked at
PublishSucceeded_ErrOnly(status, err) == err = "nil"

\* if err == nil && status == nostr.PublishStatusSucceeded
PublishSucceeded(status, err) == err = "nil" /\ status = "succeeded"

\* mutant: a publish that did not succeed writes the upgraded proof to the proof file
M_Publish_PersistsUpgrade ==
    /\ mpc = "publish"
    /\ \E o \in PublishOutcomes :
         /\ hist' = hist \cup
              {H("publish", cycle, mid, si, o[1], o[2], Terminal(newSeq).k, mrelay)}
         /\ completed' = Completed(o)
         /\ IF PublishSucceeded(o[1], o[2])
            THEN /\ mpc' = "rm_ots"
                 /\ UNCHANGED <<fs, fi, mid, mots, mevent, mrelay, si, newSeq>>
            ELSE /\ NextFile
                 /\ fs' = WriteFile(fs, OtsPath(mid), SerializeToFile(mots[1], <<newSeq>>))
    /\ UNCHANGED <<cycle, files, tip>>
    /\ MStepKeep /\ UNCHANGED proc

\* variant of M_Publish: the event goes to the first relay of the subscription list
M_Publish_ToFirstRelay ==
    /\ mpc = "publish"
    /\ \E o \in PublishOutcomes :
         IF PublishSucceeded(o[1], o[2])
         THEN /\ mpc' = "rm_ots"
              /\ hist' = hist \cup
                   {H("publish", cycle, mid, si, o[1], o[2], Terminal(newSeq).k, Relay1)}
              /\ completed' = Completed(o)
              /\ UNCHANGED <<fi, mid, mots, mevent, mrelay, si, newSeq>>
         ELSE /\ NextFile
              /\ hist' = hist \cup
                   {H("publish", cycle, mid, si, o[1], o[2], Terminal(newSeq).k, Relay1)}
              /\ completed' = Completed(o)
    /\ UNCHANGED <<fs, cycle, files, tip>>
    /\ MStepKeep /\ UNCHANGED proc

\* variant of M_Publish: a publish that did not succeed `continue`s with the next sequence
M_Publish_ContinueOnFailure ==
    /\ mpc = "publish"
    /\ \E o \in PublishOutcomes :
         IF PublishSucceeded(o[1], o[2])
         THEN /\ mpc' = "rm_ots"
              /\ hist' = hist \cup
                   {H("publish", cycle, mid, si, o[1], o[2], Terminal(newSeq).k, mrelay)}
              /\ completed' = Completed(o)
              /\ UNCHANGED <<fi, mid, mots, mevent, mrelay, si, newSeq>>
         ELSE /\ si' = si + 1
              /\ mpc' = "upgrade"
              /\ newSeq' = NoSeq
              /\ hist' = hist \cup
                   {H("publish", cycle, mid, si, o[1], o[2], Terminal(newSeq).k, mrelay)}
              /\ completed' = Completed(o)
              /\ UNCHANGED <<fi, mid, mots, mevent, mrelay>>
    /\ UNCHANGED <<fs, cycle, files, tip>>
    /\ MStepKeep /\ UNCHANGED proc

\* status, err := relay.Publish(ictx, event), then the test of the result and `break`
M_Publish ==
    /\ mpc = "publish"
    /\ \E o \in PublishOutcomes :
         IF PublishSucceeded(o[1], o[2])
         THEN /\ mpc' = "rm_ots"
              /\ hist' = hist \cup
                   {H("publish", cycle, mid, si, o[1], o[2], Terminal(newSeq).k, mrelay)}
              /\ completed' = Completed(o)
              /\ UNCHANGED <<fi, mid, mots, mevent, mrelay, si, newSeq>>
         ELSE /\ NextFile
              /\ hist' = hist \cup
                   {H("publish", cycle, mid, si, o[1], o[2], Terminal(newSeq).k, mrelay)}
              /\ completed' = Completed(o)
    /\ UNCHANGED <<fs, cycle, files, tip>>
    /\ MStepKeep /\ UNCHANGED proc

\* os.Remove of the proof file
M_RemoveOts ==
    /\ mpc = "rm_ots"
    /\ fs' = Remove(fs, OtsPath(mid))
    /\ mpc' = "rm_relay"
    /\ hist' = hist \cup {H("remove", cycle, mid, 0, "", "", "ots", <<>>)}
    /\ UNCHANGED <<cycle, files, fi, mid, mots, mevent, mrelay, si, newSeq, tip>>
    /\ MStep

\* os.Remove of the relay file
M_RemoveRelay ==
    /\ mpc = "rm_relay"
    /\ fs' = Remove(fs, RelayPath(mid))
    /\ mpc' = "rm_event"
    /\ hist' = hist \cup {H("remove", cycle, mid, 0, "", "", "relay", <<>>)}
    /\ UNCHANGED <<cycle, files, fi, mid, mots, mevent, mrelay, si, newSeq, tip>>
    /\ MStep

\* os.Remove of the event file, then `break`
M_RemoveEvent ==
    /\ mpc = "rm_event"
    /\ fs' = Remove(fs, EventPath(mid))
    /\ hist' = hist \cup {H("remove", cycle, mid, 0, "", "", "event", <<>>)}
    /\ NextFile
    /\ UNCHANGED <<cycle, files, tip>>
    /\ MStep

\* time.Sleep(time.Hour) at the end of the loop body
M_Sleep ==
    /\ mpc = "sleep"
    /\ NextCycle
    /\ hist' = {}
    /\ waited' = TRUE
    /\ UNCHANGED <<fs, cycle, mid, mots, mevent, mrelay, si, newSeq>>
    /\ MBase /\ UNCHANGED <<proc, completed>>

Maturation ==
    \/ M_Start \/ M_ReadDir \/ M_GetHeight \/ M_GetHash \/ M_Scan
    \/ M_ReadOts \/ M_ReadEvent \/ M_ReadRelay \/ M_Upgrade \/ M_EnsureRelay
    \/ M_Publish \/ M_RemoveOts \/ M_RemoveRelay \/ M_RemoveEvent \/ M_Sleep

(***************************************************************************)
(* The ingestion loop.                                                     *)
(***************************************************************************)
IStep ==
    /\ proc = "running"
    /\ UNCHANGED mvars
    /\ UNCHANGED <<build, secret, proc, hist, waited, completed>>

\* `continue` of `for event := range events`
NextEvent ==
    /\ ipc' = "recv"
    /\ iev' = <<>>
    /\ iseq' = NoSeq
    /\ iSawProof' = FALSE
    /\ ilog' = <<>>

\* the pool surfaces an event id once per subscription
PoolSurfaces(id) == id \notin seen

\* events := pool.SubMany(ctx, relays, filters)
I_Subscribe ==
    /\ ipc = "subscribe"
    /\ ipc' = "recv"
    /\ seen' = {}
    /\ UNCHANGED <<fs, delivered, iev, iseq, iSawProof, ilog>>
    /\ IStep

\* for event := range events: the next event arrives
I_Receive ==
    /\ ipc = "recv"
    /\ delivered < MaxDeliveries
    /\ \E ev \in Events :
         /\ PoolSurfaces(ev[1])
         /\ iev' = ev
         /\ seen' = seen \cup {ev[1]}
    /\ delivered' = delivered + 1
    /\ ipc' = "stat"
    /\ UNCHANGED <<fs, iseq, iSawProof, ilog>>
    /\ IStep

\* the channel closes: every relay connection is lost
I_Lost ==
    /\ ipc = "recv"
    /\ delivered < MaxDeliveries
    /\ ipc' = "backoff"
    /\ seen' = {}
    /\ UNCHANGED <<fs, delivered, iev, iseq, iSawProof, ilog>>
    /\ IStep

\* time.Sleep(5 * time.Minute), then the outer for { } subscribes again
I_Backoff ==
    /\ ipc = "backoff"
    /\ ipc' = "subscribe"
    /\ UNCHANGED <<fs, delivered, seen, iev, iseq, iSawProof, ilog>>
    /\ IStep

\* if _, err := os.Stat(PREFIX_OTS + event.ID + SUFFIX_OTS); err == nil { continue }
I_Stat ==
    /\ ipc = "stat"
    /\ IF Exists(StatPath(iev[1]))
       THEN NextEvent
       ELSE /\ ipc' = "write_event"
            /\ iSawProof' = Exists(OtsPath(iev[1]))
            /\ UNCHANGED <<iev, iseq, ilog>>
    /\ UNCHANGED <<fs, delivered, seen>>
    /\ IStep

\* os.WriteFile of the event file
I_WriteEvent ==
    /\ ipc = "write_event"
    /\ \/ /\ NextEvent
          /\ UNCHANGED fs
       \/ /\ fs' = WriteFile(fs, EventPath(iev[1]), EventString(iev))
          /\ ipc' = "write_relay"
          /\ ilog' = Append(ilog, <<"event", "ok">>)
          /\ UNCHANGED <<iev, iseq, iSawProof>>
    /\ UNCHANGED <<delivered, seen>>
    /\ IStep

\* os.WriteFile of the relay file
I_WriteRelay ==
    /\ ipc = "write_relay"
    /\ \/ /\ NextEvent
          /\ UNCHANGED fs
       \/ /\ fs' = WriteFile(fs, RelayPath(iev[1]), RelayBytes(iev[3]))
          /\ ipc' = "stamp"
          /\ ilog' = Append(ilog, <<"relay", "ok">>)
          /\ UNCHANGED <<iev, iseq, iSawProof>>
    /\ UNCHANGED <<delivered, seen>>
    /\ IStep

\* variant of I_Stamp: a failed stamp does not `continue`, the proof file is written anyway
I_Stamp_IgnoreError ==
    /\ ipc = "stamp"
    /\ \E r \in StampOutcomes(CopyDigest(HexDecodeString(iev[1]).bytes)) :
         /\ iseq' = r.seq
         /\ ipc' = "write_ots"
         /\ ilog' = Append(ilog, <<"stamp", IF r.err THEN "err" ELSE "ok">>)
         /\ UNCHANGED <<iev, iSawProof>>
    /\ UNCHANGED <<fs, delivered, seen>>
    /\ IStep

\* hex.DecodeString, copy into the digest, opentimestamps.Stamp
I_Stamp ==
    /\ ipc = "stamp"
    /\ \E r \in StampOutcomes(CopyDigest(HexDecodeString(iev[1]).bytes)) :
         IF r.err
         THEN NextEvent
         ELSE /\ iseq' = r.seq
              /\ ipc' = "write_ots"
              /\ ilog' = Append(ilog, <<"stamp", "ok">>)
              /\ UNCHANGED <<iev, iSawProof>>
    /\ UNCHANGED <<fs, delivered, seen>>
    /\ IStep

\* os.WriteFile of the proof file
I_WriteOts ==
    /\ ipc = "write_ots"
    /\ \/ UNCHANGED fs
       \/ fs' = WriteFile(fs, OtsPath(iev[1]),
                          SerializeToFile(HexDecodeString(iev[1]).bytes, <<iseq>>))
    /\ NextEvent
    /\ UNCHANGED <<delivered, seen>>
    /\ IStep

Ingestion ==
    \/ I_Subscribe \/ I_Receive \/ I_Lost \/ I_Backoff \/ I_Stat
    \/ I_WriteEvent \/ I_WriteRelay \/ I_Stamp \/ I_WriteOts

Next == Main_Boot \/ Maturation \/ Ingestion

Spec == Init /\ [][Next]_vars

(***************************************************************************)
(* What the claims speak of.                                               *)
(***************************************************************************)
\* the step is one of the maturation goroutine
MaturationStep == mvars' # mvars

\* the step is one of the ingestion loop
IngestionStep == ivars' # ivars

Did(log, op, id) == \E h \in log : h.op = op /\ h.id = id

PublishedOk(h) == h.op = "publish" /\ h.x = "succeeded" /\ h.e = "nil"

PublishedNotOk(h) == h.op = "publish" /\ ~(h.x = "succeeded" /\ h.e = "nil")

RemovedAll(log, id) ==
    \A kind \in {"ots", "relay", "event"} :
        \E h \in log : h.op = "remove" /\ h.id = id /\ h.y = kind

TipFailed(log) == \E h \in log : h.op = "tipfail"

RecordOps == {"accept", "loadfail", "upgrade", "ensure", "publish", "remove"}

\* the maturation goroutine holds a loaded artifact of the record id
Maturing(id) ==
    /\ mid = id
    /\ mpc \in {"read_event", "read_relay", "upgrade", "ensure", "publish",
                "rm_ots", "rm_relay", "rm_event"}

\* the ingestion loop writes a file in this step
IngestionWrites ==
    /\ IngestionStep
    /\ \/ fs' # fs
       \/ ipc = "write_event" /\ ipc' = "write_relay"
       \/ ipc = "write_relay" /\ ipc' = "stamp"

(***************************************************************************)
(* C1 (as claimed): in every cycle, the artifacts of a record are removed  *)
(* if and only if the upgraded sequence ended in a block attestation and   *)
(* the publish of the completion message succeeded without error.          *)
(***************************************************************************)
C1_RemovedIffConfirmedAndPublished ==
    \A id \in AllIds :
        LET confirmedAndPublished ==
                \E h \in hist : PublishedOk(h) /\ h.id = id /\ h.y = "bitcoin"
        IN  /\ Did(hist, "remove", id) => confirmedAndPublished
            /\ (mpc = "sleep" /\ confirmedAndPublished) => RemovedAll(hist, id)

(***************************************************************************)
(* C2: when the publish for a record returns an error or a status other    *)
(* than succeeded, the three artifacts of the record exist for the rest of *)
(* the cycle, and no maturation step changes its message or endpoint file. *)
(***************************************************************************)
C2_FailedPublishKeepsRecord ==
    [][\A h \in hist' :
          PublishedNotOk(h) =>
            /\ AllThreeExist(fs', h.id)
            /\ ~Did(hist', "remove", h.id)
            /\ MaturationStep =>
                 /\ AllThreeExist(fs, h.id)
                 /\ fs'[EventPath(h.id)] = fs[EventPath(h.id)]
                 /\ fs'[RelayPath(h.id)] = fs[RelayPath(h.id)]]_vars

\* C2's case: a cycle ended after a publish that did not succeed
C2_Witness ==
    /\ mpc = "sleep"
    /\ \E h \in hist : PublishedNotOk(h) /\ h.x = "failed" /\ h.y = "bitcoin"

(***************************************************************************)
(* C3 (as claimed): when a message is delivered while a proof artifact for *)
(* its id exists, the ingestion loop skips it: it reaches neither the      *)
(* writes nor the stamp call.                                              *)
(***************************************************************************)
C3_SkipsWhenProofExists ==
    ipc \in {"write_event", "write_relay", "stamp", "write_ots"} => ~iSawProof

(***************************************************************************)
(* C4: when a chain-tip fetch fails, the cycle ends there: no record is    *)
(* accepted, loaded, upgraded, published or removed in it, and no step of  *)
(* the cycle up to the fetch changes a file.                               *)
(***************************************************************************)
C4_TipFailureAbortsCycle ==
    [][/\ (MaturationStep /\ mpc \in {"readdir", "height", "hash"}) => fs' = fs
       /\ TipFailed(hist') =>
            /\ mpc' = "readdir"
            /\ \A h \in hist' : h.op \notin RecordOps]_vars

\* C4's case: the tip fetch failed while a complete record was in the store
C4_Witness ==
    /\ build = "part_000"
    /\ TipFailed(hist)
    /\ Did(hist, "complete", IdA)
    /\ Loadable(fs, IdA)

(***************************************************************************)
(* C5 (as claimed): a completion message is published only for a sequence  *)
(* ending in a block attestation; after an upgrade that is still pending   *)
(* nothing is published and nothing is removed.                            *)
(***************************************************************************)
C5_PublishOnlyWhenConfirmed ==
    /\ \A h \in hist : h.op = "publish" => h.y = "bitcoin"
    /\ \A h \in hist :
         (h.op = "upgrade" /\ h.x = "ok" /\ h.y = "pending") =>
            ~\E g \in hist : g.op \in {"publish", "remove"} /\ g.id = h.id /\ g.k \in {h.k, 0}

C7_EveryRecordAttempted ==
    mpc = "sleep" =>
        \A h \in hist : h.op = "complete" => Did(hist, "upgrade", h.id)

(***************************************************************************)
(* C8 (as claimed): every identifier the scan accepts decodes as hex to    *)
(* exactly 32 bytes.                                                       *)
(***************************************************************************)
C8_AcceptedIdsDecode ==
    \A h \in hist :
        h.op = "accept" =>
            /\ HexDecodeString(h.id).ok
            /\ Len(HexDecodeString(h.id).bytes) = DigestLen

(***************************************************************************)
(* C9 (as claimed): the ingestion loop never writes an artifact of an id   *)
(* while the maturation goroutine is between loading that id's artifacts   *)
(* and finishing their removal.                                            *)
(***************************************************************************)
C9_NoWriteWhileMaturing ==
    [][IngestionWrites => ~Maturing(iev[1])]_vars

(***************************************************************************)
(* C10 (as claimed): once written, the message file and the endpoint file  *)
(* of a record keep their content until they are removed.                  *)
(***************************************************************************)
C10_MessageAndEndpointImmutable ==
    [][\A id \in AllIds :
          /\ (Exists(EventPath(id)) /\ EventPath(id) \in DOMAIN fs')
               => fs'[EventPath(id)] = fs[EventPath(id)]
          /\ (Exists(RelayPath(id)) /\ RelayPath(id) \in DOMAIN fs')
               => fs'[RelayPath(id)] = fs[RelayPath(id)]]_vars

(***************************************************************************)
(* C11: when the signing key is not set, the process ends at startup with  *)
(* a fatal configuration error: it never runs its loops, so it never       *)
(* subscribes, stamps, upgrades, publishes or writes to the store.         *)
(***************************************************************************)
C11_MissingKeyIsFatal ==
    secret = "" =>
        /\ proc \in {"boot", "exited"}
        /\ mpc = "start"
        /\ ipc = "subscribe"

(***************************************************************************)
(* C12: the maturation goroutine begins a cycle (a directory listing) only *)
(* after a wait: the warm-up at startup or the one-hour sleep.  A cycle    *)
(* aborted by a failed listing or tip fetch is followed by the wait, never *)
(* by an immediate retry.                                                  *)
(***************************************************************************)
C12_CycleOnlyAfterWait == [][cycle' # cycle => waited]_vars

(***************************************************************************)
(* C13: the sequences of a record are not walked past the first one: after *)
(* the first sequence handled, whatever its outcome, the record is left,   *)
(* so a record gets at most one upgrade attempt per cycle.                 *)
(***************************************************************************)
UpgradesOf(id) == {h \in hist : h.op = "upgrade" /\ h.id = id}

PublishesOf(id) == {h \in hist : h.op = "publish" /\ h.id = id}

C13_OneUpgradePerRecord == \A id \in AllIds : Cardinality(UpgradesOf(id)) <= 1

\* sequence k of the record id ended in an upgrade error or a relay-connection error
SequenceFailedEarly(id, k) ==
    \E g \in hist :
        /\ g.id = id /\ g.k = k /\ g.x = "err"
        /\ g.op \in {"upgrade", "ensure"}

(* C13, as the code has it: a later sequence of a record is tried only     *)
(* when every earlier one ended in an upgrade error or a relay-connection  *)
(* error; the walk ends at the first sequence that reaches the publish     *)
(* call, whatever the publish returns, so there is at most one publish per *)
(* record per cycle and no upgrade attempt after it.                       *)
C13_StopsAtFirstPublish ==
    \A id \in AllIds :
        /\ \A h \in UpgradesOf(id) :
              \A j \in 1..(h.k - 1) : SequenceFailedEarly(id, j)
        /\ Cardinality(PublishesOf(id)) <= 1
        /\ \A p \in PublishesOf(id) : \A h \in UpgradesOf(id) : h.k <= p.k

\* the first sequence failed to upgrade, the second was upgraded and published
C13_Witness ==
    \E p \in PublishesOf(IdA) :
        /\ p.k = 2
        /\ Cardinality(UpgradesOf(IdA)) = 2

(***************************************************************************)
(* C14: for one delivered event the ingestion loop writes the event file,  *)
(* writes the relay file, stamps, writes the proof file, in this order,    *)
(* and a step that fails ends the handling of the event: each step is      *)
(* taken only after every earlier one succeeded, and the proof file is     *)
(* written only after both other files were written and the stamp          *)
(* succeeded.                                                              *)
(***************************************************************************)
IngestionOrder == <<(<<"event", "ok">>), (<<"relay", "ok">>), (<<"stamp", "ok">>)>>

\* the steps already taken, all successful, that the position ipc stands for
StepsBefore(pc) ==
    CASE pc = "write_relay" -> SubSeq(IngestionOrder, 1, 1)
      [] pc = "stamp" -> SubSeq(IngestionOrder, 1, 2)
      [] pc = "write_ots" -> IngestionOrder
      [] OTHER -> <<>>

\* this step of the ingestion loop creates or changes the proof file of id
WritesProof(id) ==
    /\ OtsPath(id) \in DOMAIN fs'
    /\ OtsPath(id) \in DOMAIN fs => fs'[OtsPath(id)] # fs[OtsPath(id)]

C14_StepsInOrderAbortOnFailure ==
    [][/\ ilog' = StepsBefore(ipc')
       /\ IngestionStep =>
            \A id \in AllIds :
                WritesProof(id) =>
                    /\ ilog = IngestionOrder
                    /\ iev[1] = id
                    /\ iseq # NoSeq]_vars

\* the proof file of a delivered event was just written
C14_Witness ==
    /\ delivered > 0
    /\ ipc = "recv"
    /\ fs = WriteFile(EmptyStore @@ (EventPath(IdA) :> EventString(<<IdA, "pk">>))
                                 @@ (RelayPath(IdA) :> RelayBytes(Relay1)),
                      OtsPath(IdA),
                      SerializeToFile(HexDecodeString(IdA).bytes, <<(<<OpStep, PendingAtt>>)>>))

(***************************************************************************)
(* C15: the maturation goroutine acts only on ids that had a proof file    *)
(* when the directory was listed.  A record that a failed stamp left with  *)
(* its event and relay files but no proof file is never taken up: no load, *)
(* no upgrade attempt, no publish, no removal.                             *)
(***************************************************************************)
C15_ActsOnlyOnListedProofs ==
    \A h \in hist : h.op \in RecordOps => Did(hist, "proof", h.id)

\* the name is among the entries the last os.ReadDir returned
Listed(name) == \E i \in 1..Len(files) : files[i] = name

\* a whole scan went over a record that has its relay and event files but no proof
C15_Witness ==
    /\ build = "part_000"
    /\ mpc = "sleep"
    /\ Listed(PREFIX_RELAY \o IdA \o SUFFIX_RELAY)
    /\ Listed(PREFIX_EVENT \o IdA \o SUFFIX_EVENT)
    /\ ~Did(hist, "proof", IdA)
    /\ \A h \in hist : h.id # IdA

(***************************************************************************)
(* C16: when the proof, the event or the relay of a record cannot be       *)
(* loaded, the record is skipped for the cycle: the failing step changes   *)
(* no file and moves on to the next directory entry, and the cycle holds   *)
(* no upgrade, relay connection, publish or removal for that record.       *)
(***************************************************************************)
C16_LoadFailureSkipsRecord ==
    [][\A h \in hist' :
         h.op = "loadfail" =>
            /\ \A g \in hist' :
                  g.id = h.id => g.op \notin {"upgrade", "ensure", "publish", "remove"}
            /\ h \notin hist => fs' = fs /\ mpc' = "scan" /\ fi' = fi + 1]_vars

\* a cycle skipped the record of IdZ, whose proof cannot be parsed, published
\* for IdA, and reached its end with the proof file of IdZ still in place
C16_Witness ==
    /\ mpc = "sleep"
    /\ Did(hist, "loadfail", IdZ)
    /\ Did(hist, "publish", IdA)
    /\ Exists(OtsPath(IdZ))

(***************************************************************************)
(* C17: the completion event of a record is published to one relay, the    *)
(* one named in the relay file of the record as it was loaded in the       *)
(* cycle, never to another relay of the subscription list; and a record    *)
(* gets at most one publish per cycle.                                     *)
(***************************************************************************)
C17_PublishesToStoredRelayOnce ==
    \A id \in AllIds :
        /\ Cardinality(PublishesOf(id)) <= 1
        /\ \A p \in PublishesOf(id) :
              /\ Len(p.u) = 1
              /\ \E g \in hist :
                    g.op = "loadrelay" /\ g.id = id /\ p.u = TrimSpace(g.u)

\* the record of IdA, stored with the second relay of the list and a
\* trailing newline, was published to that relay
C17_Witness ==
    \E p \in PublishesOf(IdA) :
        /\ p.u = Relay2
        /\ \E g \in hist :
              g.op = "loadrelay" /\ g.id = IdA /\ g.u = Relay2 \o <<"\n">>

(***************************************************************************)
(* C18: in every reachable state, whatever the interleaving of the two     *)
(* tasks and however often an event is delivered, a proof file of an       *)
(* ingested id comes with the event file and the relay file of that id:    *)
(* there is no orphan proof.                                               *)
(***************************************************************************)
C18_NoOrphanProof ==
    \A ev \in Events :
        Exists(OtsPath(ev[1])) =>
            Exists(EventPath(ev[1])) /\ Exists(RelayPath(ev[1]))

(***************************************************************************)
(* C19: as long as the process does not crash and no removal fails, at     *)
(* most one completion event per event id is ever published successfully,  *)
(* over any deliveries (replays after a new subscription included) and any *)
(* number of cycles.                                                       *)
(***************************************************************************)
C19_AtMostOneCompletion ==
    [][\A h \in hist' \ hist : PublishedOk(h) => h.id \notin completed]_vars

====
